---------------------------- MODULE Spec2Model ----------------------------
(***************************************************************************)
(* Model of the xmstool_examples tools.                                    *)
(*                                                                         *)
(*   MeshFrom2dmTool  (tools/mesh_from_2dm_tool.py): the .2dm text parser  *)
(*                    and the mesh assembler, on one tool instance whose   *)
(*                    run may be called any number of times.               *)
(*   DatasetDiffTool  (tools/dataset_diff_tool.py): validate_arguments and *)
(*                    run over two dataset readers.                        *)
(*                                                                         *)
(* Text is modelled as sequences of one-character strings, so that strip,  *)
(* split, lower, startswith, int and Path.name are computed as Python      *)
(* computes them.                                                          *)
(***************************************************************************)
EXTENDS Integers, Sequences, FiniteSets

VARIABLES
    \* ---- MeshFrom2dmTool instance fields (__init__, lines 27-30)
    nodes,        \* self._nodes: insertion-ordered dict, a sequence of [id, loc]
    node_map,     \* self._node_map: function node ID -> index
    cells,        \* self._cells: sequence of sequences of node IDs
    mesh_name,    \* self._mesh_name
    \* ---- the environment of the mesh tool
    file,         \* the lines of the .2dm file named by the two_dm_file argument
    args,         \* the arguments of the latest run
    out,          \* what the latest run handed to the host / how it ended
    before,       \* the keys of _nodes and the length of _cells when the latest run started
    epoch,        \* "new": no run yet; "first": one run; "reused": more than one
    reads,        \* lines read by this instance so far
    pc,           \* "idle" or "done" (a run has ended and the file is untouched since)
    \* ---- DatasetDiffTool
    reader1,      \* self._reader1 (metadata of the first input dataset)
    reader2,      \* self._reader2
    errors,       \* the dict returned by validate_arguments
    data1,        \* the timesteps run read from reader1
    data2,        \* the timesteps run read from reader2
    writer,       \* the output dataset writer
    dpc           \* "start", "validated", "done"

meshVars == <<nodes, node_map, cells, mesh_name, file, args, out, before, epoch, reads, pc>>
diffVars == <<reader1, reader2, errors, data1, data2, writer, dpc>>
vars == <<meshVars, diffVars>>

-----------------------------------------------------------------------------
(* Bounds of the model *)

\* lines one tool instance reads over all its runs
MaxRead == 3
\* values of a dataset over all its timesteps
MaxCells == 3

-----------------------------------------------------------------------------
(* Python text primitives *)

DQ == "\""

UpperCase == <<"A","B","C","D","E","F","G","H","I","J","K","L","M",
               "N","O","P","Q","R","S","T","U","V","W","X","Y","Z">>
LowerCase == <<"a","b","c","d","e","f","g","h","i","j","k","l","m",
               "n","o","p","q","r","s","t","u","v","w","x","y","z">>
Digits == <<"0","1","2","3","4","5","6","7","8","9">>

\* str.isspace for one character
IsSpace(c) == c \in {" ", "\t", "\n"}

\* str.lower / str.casefold for one ASCII character
LowerChar(c) ==
    IF \E i \in 1..26 : UpperCase[i] = c
    THEN LowerCase[CHOOSE i \in 1..26 : UpperCase[i] = c]
    ELSE c

\* str.lower(), str.casefold()
lower(s) == [i \in 1..Len(s) |-> LowerChar(s[i])]

RECURSIVE lstrip(_)
lstrip(s) == IF s # <<>> /\ IsSpace(Head(s)) THEN lstrip(Tail(s)) ELSE s

RECURSIVE rstrip(_)
rstrip(s) ==
    IF s # <<>> /\ IsSpace(s[Len(s)]) THEN rstrip(SubSeq(s, 1, Len(s) - 1)) ELSE s

\* str.strip()
strip(s) == rstrip(lstrip(s))

RECURSIVE lstrip_char(_, _)
lstrip_char(s, c) == IF s # <<>> /\ Head(s) = c THEN lstrip_char(Tail(s), c) ELSE s

RECURSIVE rstrip_char(_, _)
rstrip_char(s, c) ==
    IF s # <<>> /\ s[Len(s)] = c THEN rstrip_char(SubSeq(s, 1, Len(s) - 1), c) ELSE s

\* str.strip(c) for a one-character argument
strip_char(s, c) == rstrip_char(lstrip_char(s, c), c)

\* str.startswith
startswith(s, p) == Len(s) >= Len(p) /\ SubSeq(s, 1, Len(p)) = p

\* the first whitespace-free word of s, s not starting with whitespace
RECURSIVE FirstWord(_)
FirstWord(s) ==
    IF s = <<>> \/ IsSpace(Head(s)) THEN <<>> ELSE <<Head(s)>> \o FirstWord(Tail(s))

\* str.split() with no argument: the maximal whitespace-free words
RECURSIVE split(_)
split(s) ==
    LET t == lstrip(s)
        w == FirstWord(t)
    IN  IF t = <<>> THEN <<>> ELSE <<w>> \o split(SubSeq(t, Len(w) + 1, Len(t)))

\* " ".join(words)
RECURSIVE join(_)
join(words) ==
    IF words = <<>> THEN <<>>
    ELSE IF Len(words) = 1 THEN words[1]
    ELSE words[1] \o <<" ">> \o join(Tail(words))

DigitSet == {Digits[i] : i \in 1..10}
DigitTable == [c \in DigitSet |-> (CHOOSE i \in 1..10 : Digits[i] = c) - 1]
DigitValue(c) == DigitTable[c]

\* whether int(word) / float(word) succeeds; the model's numbers are unsigned decimals
IsNumber(word) ==
    /\ word # <<>>
    /\ \A i \in 1..Len(word) : word[i] \in DigitSet

\* int(word) for a word of decimal digits
RECURSIVE int(_)
int(word) ==
    IF Len(word) = 1 THEN DigitValue(word[1])
    ELSE 10 * int(SubSeq(word, 1, Len(word) - 1)) + DigitValue(word[Len(word)])

\* float(word) for a word of decimal digits
float(word) == int(word)

\* Path(filename).name: what follows the last "/"
RECURSIVE PathName(_)
PathName(filename) ==
    IF \E i \in 1..Len(filename) : filename[i] = "/"
    THEN PathName(Tail(filename))
    ELSE filename

-----------------------------------------------------------------------------
(* The lines a .2dm file of the model is made of *)

\* node 3 at (3, 0, 0): lower-case card, doubled and trailing blanks
ND_3 == <<"n","d"," "," ","3"," ","3"," ","0"," ","0"," ">>
\* node 7 at (7, 0, 0)
ND_7 == <<"N","D"," ","7"," ","7"," ","0"," ","0">>
\* node 3 a second time, at another place
ND_3_AGAIN == <<"N","D"," ","3"," ","9"," ","0"," ","0">>
\* a node line without its Z, with a doubled blank
ND_SHORT == <<"N","D"," "," ","7"," ","2"," ","3">>
\* a triangle
E3T_373 == <<"E","3","T"," ","1"," ","3"," ","7"," ","3">>
\* a quad, lower-case card, with a word after its last point
E4Q_7337_MORE == <<"e","4","q"," ","2"," ","7"," ","3"," ","3"," ","7"," ","9">>
\* a triangle line with two points
E3T_SHORT == <<"E","3","T"," ","1"," ","3"," ","7">>
\* a quad line with three points
E4Q_SHORT == <<"E","4","Q"," ","1"," ","3"," ","7"," ","3">>
\* a quoted mesh name
NAME_A == <<"M","E","S","H","N","A","M","E"," ",DQ,"a",DQ>>
\* a bare mesh name, mixed case, blanks around
NAME_B == <<" ","M","e","s","h","N","a","m","e"," "," ","b">>
\* a blank line
BLANK == <<" ">>
\* a card the parser does not know
UNKNOWN_CARD == <<"N","D","S"," ","1">>

Lines == {ND_3, ND_7, ND_3_AGAIN, ND_SHORT, E3T_373, E4Q_7337_MORE, E3T_SHORT, E4Q_SHORT, NAME_A, NAME_B, BLANK, UNKNOWN_CARD}

\* the file path argument and the user's mesh names
Filenames == {<<"d","/","f">>}
MeshNames == {<<>>, <<"U">>}
Args == [filename : Filenames, override_name : BOOLEAN, mesh_name : MeshNames]
NoArgs == [filename |-> <<>>, override_name |-> FALSE, mesh_name |-> <<>>]

-----------------------------------------------------------------------------
(* MeshFrom2dmTool: the parser *)

MIN_NODE_LINE_CARDS == 5
TRIANGLE == 5
QUAD == 9

mesh_name_card == <<"m","e","s","h","n","a","m","e">>
card_e3t == <<"e","3","t">>
card_e4q == <<"e","4","q">>
card_nd == <<"n","d">>

NoError == [type |-> "None", message |-> <<>>]
ValueError == [type |-> "ValueError", message |-> <<>>]
KeyError == [type |-> "KeyError", message |-> <<>>]

\* Tool.fail(message): ends the run with a tool error carrying the message
fail(message) == [type |-> "ToolError", message |-> message]

\* The fields of a tool instance, with the exception (if any) that ended the call
Self(n, m, c, name) == [nodes |-> n, node_map |-> m, cells |-> c, mesh_name |-> name, exc |-> NoError]

EmptyMap == [k \in {} |-> 0]

\* the keys of an insertion-ordered dict
Keys(d) == {d[i].id : i \in 1..Len(d)}

\* d[k] = v on an insertion-ordered dict: a present key keeps its place
DictSet(d, k, v) ==
    IF k \in Keys(d)
    THEN [i \in 1..Len(d) |-> IF d[i].id = k THEN [id |-> k, loc |-> v] ELSE d[i]]
    ELSE Append(d, [id |-> k, loc |-> v])

\* _add_node with the length test off by one
_add_node_short(self, line) ==
    IF Len(line) < MIN_NODE_LINE_CARDS - 1
    THEN [self EXCEPT !.exc = fail(<<"Unable to parse node: ">> \o join(line))]
    ELSE IF Len(line) < MIN_NODE_LINE_CARDS
    THEN [self EXCEPT !.nodes = DictSet(self.nodes, int(line[2]), <<0, 0, 0>>)]
    ELSE [self EXCEPT !.nodes = DictSet(self.nodes, int(line[2]),
                                    <<float(line[3]), float(line[4]), float(line[5])>>)]

\* _add_node: a line of fewer than MIN_NODE_LINE_CARDS words fails, else
\* self._nodes[ID] = (X, Y, Z)
_add_node(self, line) ==
    IF Len(line) < MIN_NODE_LINE_CARDS
    THEN [self EXCEPT !.exc = fail(<<"Unable to parse node: ">> \o join(line))]
    ELSE IF \E i \in 2..5 : ~IsNumber(line[i])
    THEN [self EXCEPT !.exc = ValueError]
    ELSE [self EXCEPT !.nodes = DictSet(self.nodes, int(line[2]),
                                    <<float(line[3]), float(line[4]), float(line[5])>>)]

\* _add_cell: a line of fewer than num_pts + 2 words fails, else the num_pts
\* node IDs after the cell ID are appended to self._cells
_add_cell(self, line) ==
    LET num_pts == IF lower(line[1]) = card_e4q THEN 4 ELSE 3
    IN  IF Len(line) < num_pts + 2
        THEN [self EXCEPT !.exc = fail(<<"Unable to parse element: ">> \o join(line))]
        ELSE IF \E i \in 3..(num_pts + 2) : ~IsNumber(line[i])
        THEN [self EXCEPT !.exc = ValueError]
        ELSE [self EXCEPT !.cells = Append(self.cells,
                              [i \in 1..num_pts |-> int(line[i + 2])])]

\* what the loop of _parse computes from a line before it touches the instance:
\* the stripped line, whether it is a mesh name card and the name it carries,
\* the line's words and its card (the first word, in lower case)
ReadLine(raw) ==
    LET line == strip(raw)
    IN  [line |-> line,
         is_name |-> startswith(lower(line), mesh_name_card),
         name |-> strip_char(strip(SubSeq(line, Len(mesh_name_card) + 1, Len(line))), DQ),
         line_words |-> split(line),
         card |-> IF split(line) = <<>> THEN <<>> ELSE lower(split(line)[1])]

\* ReadLine of every line of the model, computed once
LineTable == [l \in Lines |-> ReadLine(l)]

\* the body of _parse's loop for one line of the file
parse_line(self, raw) ==
    LET r == LineTable[raw]
    IN  IF r.line = <<>> THEN self
        ELSE IF r.is_name THEN [self EXCEPT !.mesh_name = r.name]
        ELSE IF r.card \in {card_e3t, card_e4q} THEN _add_cell(self, r.line_words)
        ELSE IF r.card = card_nd THEN _add_node(self, r.line_words)
        ELSE self

\* _parse: the lines in order; an exception ends the loop
RECURSIVE _parse(_, _)
_parse(self, lines) ==
    IF lines = <<>> \/ self.exc # NoError THEN self
    ELSE _parse(parse_line(self, Head(lines)), Tail(lines))

-----------------------------------------------------------------------------
(* MeshFrom2dmTool: the assembler and run *)

\* enumerate counting from one
IndexOfFromOne(d, k) == CHOOSE i \in 1..Len(d) : d[i].id = k

\* the index _build_points gives a key of the ordered dict: enumerate counts from 0
IndexOf(d, k) == (CHOOSE i \in 1..Len(d) : d[i].id = k) - 1

\* _build_points: the returned locations
build_points_locs(self) == [i \in 1..Len(self.nodes) |-> self.nodes[i].loc]

\* _build_points: self._node_map afterwards (entries of keys not in _nodes stay)
build_points_map(self) ==
    [k \in (DOMAIN self.node_map) \cup Keys(self.nodes) |->
        IF k \in Keys(self.nodes) THEN IndexOf(self.nodes, k) ELSE self.node_map[k]]

\* the record of one cell in the cellstream
CellRecord(cell, map) ==
    <<(IF Len(cell) = 4 THEN QUAD ELSE TRIANGLE), Len(cell)>>
        \o [i \in 1..Len(cell) |-> map[cell[i]]]

\* _build_cellstream, when every node ID of every cell is a key of the map
RECURSIVE build_cellstream(_, _)
build_cellstream(cs, map) ==
    IF cs = <<>> THEN <<>>
    ELSE CellRecord(Head(cs), map) \o build_cellstream(Tail(cs), map)

\* whether self._node_map[node_id] raises in _build_cellstream
RaisesKeyError(cs, map) ==
    \E c \in 1..Len(cs) : \E i \in 1..Len(cs[c]) : cs[c][i] \notin DOMAIN map

NoGrid == [locations |-> <<>>, cellstream |-> <<>>]

\* how a run ended: the grid and name given to set_output_grid, if it was called
Aborted(exc) == [called |-> FALSE, grid |-> NoGrid, name |-> <<>>, exc |-> exc]
NoOutput == Aborted(NoError)

\* run's choice of name with the override flag ignored
output_name_any_user_name(a, parsed_name) ==
    IF a.mesh_name # <<>> THEN a.mesh_name ELSE parsed_name

\* run's choice of the output grid's name (a non-empty string is true in Python)
output_name(a, parsed_name) ==
    IF a.override_name /\ a.mesh_name # <<>> THEN a.mesh_name ELSE parsed_name

\* run: the instance afterwards and what the host got
run(self, a, lines) ==
    LET parsed == _parse([self EXCEPT !.mesh_name = PathName(a.filename)], lines)
        mapped == [parsed EXCEPT !.node_map = build_points_map(parsed)]
        name == output_name(a, mapped.mesh_name)
    IN  IF parsed.exc # NoError
        THEN [self |-> [parsed EXCEPT !.exc = NoError], out |-> Aborted(parsed.exc)]
        ELSE IF RaisesKeyError(mapped.cells, mapped.node_map)
        THEN [self |-> mapped, out |-> Aborted(KeyError)]
        ELSE [self |-> [mapped EXCEPT !.mesh_name = name],
              out |-> [called |-> TRUE,
                       grid |-> [locations |-> build_points_locs(mapped),
                                 cellstream |-> build_cellstream(mapped.cells, mapped.node_map)],
                       name |-> name,
                       exc |-> NoError]]

\* a new instance: __init__
NewTool == Self(<<>>, EmptyMap, <<>>, <<>>)

NoBefore == [ids |-> {}, cells |-> 0]

-----------------------------------------------------------------------------
(* MeshFrom2dmTool: the actions *)

MeshInit ==
    /\ nodes = <<>>
    /\ node_map = EmptyMap
    /\ cells = <<>>
    /\ mesh_name = <<>>
    /\ file = <<>>
    /\ args = NoArgs
    /\ out = NoOutput
    /\ before = NoBefore
    /\ epoch = "new"
    /\ reads = 0
    /\ pc = "idle"

\* the user appends a line to the file the tool is pointed at
WriteLine ==
    /\ reads + Len(file) + 1 <= MaxRead
    /\ \E l \in Lines : file' = Append(file, l)
    /\ pc' = "idle"
    /\ args' = NoArgs
    /\ out' = NoOutput
    /\ before' = NoBefore
    /\ UNCHANGED <<nodes, node_map, cells, mesh_name, epoch, reads, diffVars>>

\* the user points the tool at another (so far empty) file
NewFile ==
    /\ file # <<>>
    /\ file' = <<>>
    /\ pc' = "idle"
    /\ args' = NoArgs
    /\ out' = NoOutput
    /\ before' = NoBefore
    /\ UNCHANGED <<nodes, node_map, cells, mesh_name, epoch, reads, diffVars>>

\* MeshFrom2dmTool(): the host makes a new instance
Construct ==
    /\ epoch # "new"
    /\ nodes' = NewTool.nodes
    /\ node_map' = NewTool.node_map
    /\ cells' = NewTool.cells
    /\ mesh_name' = NewTool.mesh_name
    /\ epoch' = "new"
    /\ reads' = 0
    /\ pc' = "idle"
    /\ args' = NoArgs
    /\ out' = NoOutput
    /\ before' = NoBefore
    /\ UNCHANGED <<file, diffVars>>

\* MeshFrom2dmTool.run(arguments) on the instance, over the file as it is
Run ==
    /\ reads + Len(file) <= MaxRead
    /\ \E a \in Args :
         LET r == run(Self(nodes, node_map, cells, mesh_name), a, file)
         IN  /\ nodes' = r.self.nodes
             /\ node_map' = r.self.node_map
             /\ cells' = r.self.cells
             /\ mesh_name' = r.self.mesh_name
             /\ out' = r.out
             /\ args' = a
    /\ before' = [ids |-> Keys(nodes), cells |-> Len(cells)]
    /\ epoch' = IF epoch = "new" THEN "first" ELSE "reused"
    /\ reads' = reads + Len(file)
    /\ pc' = "done"
    /\ UNCHANGED <<file, diffVars>>

-----------------------------------------------------------------------------
(* The .2dm format, read off a file without the tool *)

\* (each is computed once for the lines of the model and then looked up)
FieldsTable == [l \in Lines |-> split(strip(l))]
Fields(l) == FieldsTable[l]
NameCards == {l \in Lines : startswith(lower(strip(l)), mesh_name_card)}
IsNameCard(l) == l \in NameCards
CardTable ==
    [l \in Lines |-> IF Fields(l) = <<>> \/ IsNameCard(l) THEN <<>> ELSE lower(Fields(l)[1])]
CardOf(l) == CardTable[l]
IsNodeCard(l) == CardOf(l) = card_nd
IsTriCard(l) == CardOf(l) = card_e3t
IsQuadCard(l) == CardOf(l) = card_e4q
IsCellCard(l) == IsTriCard(l) \/ IsQuadCard(l)

\* a record with too few fields for its card
MalformedLines ==
    {l \in Lines : \/ IsNodeCard(l) /\ Len(Fields(l)) < 5
                   \/ IsTriCard(l) /\ Len(Fields(l)) < 5
                   \/ IsQuadCard(l) /\ Len(Fields(l)) < 6}
Malformed(l) == l \in MalformedLines

GoodNodeLines == {l \in Lines : IsNodeCard(l) /\ ~Malformed(l)}
GoodCellLines == {l \in Lines : IsCellCard(l) /\ ~Malformed(l)}
GoodNode(l) == l \in GoodNodeLines
GoodCell(l) == l \in GoodCellLines

\* the node IDs a cell line names: 3 after the cell ID for E3T, 4 for E4Q
PointsTable ==
    [l \in GoodCellLines |->
        [i \in 1..(IF IsQuadCard(l) THEN 4 ELSE 3) |-> int(Fields(l)[i + 2])]]
PointsOf(l) == PointsTable[l]
NodeIdTable == [l \in GoodNodeLines |-> int(Fields(l)[2])]
NodeIdOf(l) == NodeIdTable[l]
CoordTable ==
    [l \in GoodNodeLines |-> <<int(Fields(l)[3]), int(Fields(l)[4]), int(Fields(l)[5])>>]
CoordOf(l) == CoordTable[l]

\* the IDs of the file's node lines / the IDs its cells name
NodeIDs(f) == {NodeIdOf(f[i]) : i \in {j \in 1..Len(f) : GoodNode(f[j])}}
ReferencedIDs(f) ==
    UNION {{PointsOf(f[i])[k] : k \in 1..Len(PointsOf(f[i]))} :
              i \in {j \in 1..Len(f) : GoodCell(f[j])}}

WellFormed(f) ==
    /\ \A i \in 1..Len(f) : ~Malformed(f[i])
    /\ ReferencedIDs(f) \subseteq NodeIDs(f)

\* the index of the first malformed line / of the last mesh name line of f
FirstMalformed(f) ==
    CHOOSE i \in 1..Len(f) : Malformed(f[i]) /\ \A j \in 1..(i - 1) : ~Malformed(f[j])
LastNameCard(f) ==
    CHOOSE i \in 1..Len(f) : IsNameCard(f[i]) /\ \A j \in (i + 1)..Len(f) : ~IsNameCard(f[j])

\* the rank of an ID among the file's IDs, by first appearance
FirstSeenAt(f, id) == CHOOSE i \in 1..Len(f) :
    /\ GoodNode(f[i]) /\ NodeIdOf(f[i]) = id
    /\ \A j \in 1..(i - 1) : ~(GoodNode(f[j]) /\ NodeIdOf(f[j]) = id)
RankOf(f, id) == Cardinality({o \in NodeIDs(f) : FirstSeenAt(f, o) < FirstSeenAt(f, id)})

\* the coordinate the file gives an ID: that of its last node line
LastSeenAt(f, id) == CHOOSE i \in 1..Len(f) :
    /\ GoodNode(f[i]) /\ NodeIdOf(f[i]) = id
    /\ \A j \in (i + 1)..Len(f) : ~(GoodNode(f[j]) /\ NodeIdOf(f[j]) = id)
CoordinateOf(f, id) == CoordOf(f[LastSeenAt(f, id)])

\* the point indices of a cellstream, read record by record
RECURSIVE PointIndices(_)
PointIndices(cs) ==
    IF Len(cs) < 2 THEN {}
    ELSE {cs[i] : i \in 3..(2 + cs[2])} \cup PointIndices(SubSeq(cs, 3 + cs[2], Len(cs)))

\* the cells of the file, in file order, as records over the instance's map
RECURSIVE ExpectedStream(_, _)
ExpectedStream(f, map) ==
    IF f = <<>> THEN <<>>
    ELSE (IF GoodCell(Head(f))
          THEN LET pts == PointsOf(Head(f))
               IN  <<(IF IsTriCard(Head(f)) THEN TRIANGLE ELSE QUAD),
                     (IF IsTriCard(Head(f)) THEN 3 ELSE 4)>>
                       \o [i \in 1..Len(pts) |-> map[pts[i]]]
          ELSE <<>>) \o ExpectedStream(Tail(f), map)

\* whether sequence part occurs in sequence whole
Contains(whole, part) ==
    \E k \in 0..(Len(whole) - Len(part)) : SubSeq(whole, k + 1, k + Len(part)) = part

\* what follows the last "/" of a path
LastComponent(path) ==
    LET slashes == {i \in 1..Len(path) : path[i] = "/"}
    IN  IF slashes = {} THEN path
        ELSE SubSeq(path, (CHOOSE i \in slashes : \A j \in slashes : j <= i) + 1, Len(path))

\* the name a mesh name line carries
NameTable ==
    [l \in NameCards |->
        strip_char(strip(SubSeq(strip(l), Len(mesh_name_card) + 1, Len(strip(l)))), DQ)]
NameCarried(l) == NameTable[l]

Done == pc = "done"
OnFreshInstance == epoch = "first"

-----------------------------------------------------------------------------
(* Claims about MeshFrom2dmTool *)

\* C1: for a well-formed file run on a fresh instance, the grid is built, it has
\* as many coordinates as the file has distinct node IDs, and every point index
\* of the cellstream is an index into the coordinates.
C1_WellFormedGridSound ==
    (Done /\ OnFreshInstance /\ WellFormed(file)) =>
        /\ out.called
        /\ Len(out.grid.locations) = Cardinality(NodeIDs(file))
        /\ \A i \in PointIndices(out.grid.cellstream) :
               0 <= i /\ i < Len(out.grid.locations)

C1_Witness ==
    /\ Done /\ OnFreshInstance /\ WellFormed(file)
    /\ Len(out.grid.locations) = 2
    /\ Len(out.grid.cellstream) = 5

\* C2 (as claimed): whenever a run builds the grid, _build_points has mapped every
\* node ID of the file to its rank by first appearance in the file, onto 0..N-1,
\* and the coordinate at that index is the one the file gives the ID.
C2_DenseFirstSeenOrder ==
    (Done /\ out.called) =>
        /\ DOMAIN node_map = NodeIDs(file)
        /\ Len(out.grid.locations) = Cardinality(NodeIDs(file))
        /\ \A id \in NodeIDs(file) :
              /\ node_map[id] = RankOf(file, id)
              /\ out.grid.locations[node_map[id] + 1] = CoordinateOf(file, id)

\* C2 on a fresh instance: the same statement for the first run of an instance
C2_DenseFirstSeenOrderFresh == OnFreshInstance => C2_DenseFirstSeenOrder

\* C3 (as claimed): the cellstream is the concatenation, in file order, of one
\* record (tag, count, dense indices) per accepted cell line of the file.
C3_CellstreamOfFile ==
    (Done /\ out.called) =>
        out.grid.cellstream = ExpectedStream(file, node_map)

\* C3 on a fresh instance
C3_CellstreamOfFileFresh == OnFreshInstance => C3_CellstreamOfFile

\* C4: a file with a malformed record ends the run with a tool error whose
\* message holds the words of the first such line; no grid is handed to the
\* host, and the instance gains exactly the nodes and cells of the lines before it.
C4_MalformedRecordAborts ==
    (Done /\ \E i \in 1..Len(file) : Malformed(file[i])) =>
        LET k == FirstMalformed(file)
            head == SubSeq(file, 1, k - 1)
        IN  /\ out.exc.type = "ToolError"
            /\ Contains(out.exc.message, join(Fields(file[k])))
            /\ ~out.called
            /\ Keys(nodes) = before.ids \cup NodeIDs(head)
            /\ Len(cells) = before.cells
                              + Cardinality({j \in 1..Len(head) : GoodCell(head[j])})

C4_Witness ==
    /\ Done /\ Len(file) = 3
    /\ GoodNode(file[1]) /\ Malformed(file[2]) /\ IsNodeCard(file[2]) /\ GoodCell(file[3])
    /\ out.exc.type = "ToolError"

\* C5 (as claimed): a run over a file in which a cell names a node ID that no
\* node line of the file gives never hands a grid to the host.
C5_MissingNodeFailsImport ==
    (Done /\ ~(ReferencedIDs(file) \subseteq NodeIDs(file))) => ~out.called

\* C5 on a fresh instance
C5_MissingNodeFailsImportFresh == OnFreshInstance => C5_MissingNodeFailsImport

\* C9 (as claimed): what a run hands to the host is what a run of a new instance
\* over the same file with the same arguments hands to it.
C9_RunsIndependent ==
    Done => out = run(NewTool, args, file).out

\* C10: the output grid is named by the user's mesh_name when override_name is
\* set and mesh_name is not empty, else by the file's last mesh name line, else
\* by the last component of the file's path.
C10_NamePrecedence ==
    (Done /\ out.called) =>
        out.name =
            IF args.override_name /\ args.mesh_name # <<>> THEN args.mesh_name
            ELSE IF \E i \in 1..Len(file) : IsNameCard(file[i])
                 THEN NameCarried(file[LastNameCard(file)])
                 ELSE LastComponent(args.filename)

C10_Witness ==
    /\ Done /\ out.called
    /\ ~args.override_name /\ args.mesh_name # <<>>
    /\ Len(file) = 2 /\ IsNameCard(file[1]) /\ IsNameCard(file[2])
    /\ out.name = <<"b">>

-----------------------------------------------------------------------------
(* DatasetDiffTool *)

\* Optional numbers: None is the empty sequence
None == <<>>
Some(v) == <<v>>

\* An array element: a number or not-a-number
NaN == [nan |-> TRUE, v |-> 0]
Num(x) == [nan |-> FALSE, v |-> x]

\* the values a dataset holds and the null values it may declare
Values == {-9, -1, 2}
NullValues == {None, Some(-9), Some(-1)}
GeomUuids == {"g1", "g2"}

\* DatasetReader as the tool uses it: geom_uuid, num_values, num_times, null_value
Readers ==
    {r \in [geom_uuid : GeomUuids, num_values : 1..MaxCells, num_times : 1..MaxCells,
            null_value : NullValues] : r.num_values * r.num_times <= MaxCells}

\* the timesteps a reader can hold
DataOf(r) == [1..r.num_times -> [1..r.num_values -> Values]]

NoReader == [geom_uuid |-> "", num_values |-> 0, num_times |-> 0, null_value |-> None]
NoWriter == [geom_uuid |-> "", null_value |-> None, timesteps |-> <<>>, finished |-> FALSE]
NoErrors == [k \in {} |-> ""]

\* arguments[ARG_INPUT_DATASET1].name
ARG1_NAME == "input_dataset1"

GEOM_MSG == "Datasets must be on the same geometry."
VALUES_MSG == "Datasets must have the same dataset location."
TIMES_MSG == "Datasets must have matching number of timesteps."

\* errors[k] = msg
Put(e, k, msg) == [x \in (DOMAIN e) \cup {k} |-> IF x = k THEN msg ELSE e[x]]

\* validate_arguments without the timestep check
validate_arguments_no_times(r1, r2) ==
    LET e1 == IF r1.geom_uuid # r2.geom_uuid THEN Put(NoErrors, ARG1_NAME, GEOM_MSG) ELSE NoErrors
        e2 == IF r1.num_values # r2.num_values THEN Put(e1, ARG1_NAME, VALUES_MSG) ELSE e1
    IN  e2

\* validate_arguments: the errors dict it returns for two valid input datasets
validate_arguments(r1, r2) ==
    LET e1 == IF r1.geom_uuid # r2.geom_uuid THEN Put(NoErrors, ARG1_NAME, GEOM_MSG) ELSE NoErrors
        e2 == IF r1.num_values # r2.num_values THEN Put(e1, ARG1_NAME, VALUES_MSG) ELSE e1
        e3 == IF r1.num_times # r2.num_times THEN Put(e2, ARG1_NAME, TIMES_MSG) ELSE e2
    IN  e3

\* _init_writer's null value taking the second input's first
init_null_value_second_first(r1, r2) ==
    IF r2.null_value = None THEN r1.null_value ELSE r2.null_value

\* _init_writer: self._null_value
init_null_value(r1, r2) ==
    IF r1.null_value = None THEN r2.null_value ELSE r1.null_value

\* reader.timestep_with_activity(ts_idx, nan_null_values=True): the values of the
\* timestep, with NaN where the dataset's null value (if it has one) stands
timestep_with_activity(r, data, ts_idx) ==
    [i \in 1..r.num_values |->
        IF r.null_value # None /\ data[ts_idx][i] = r.null_value[1]
        THEN NaN ELSE Num(data[ts_idx][i])]

\* numpy's elementwise float subtraction
Subtract(x, y) == IF x.nan \/ y.nan THEN NaN ELSE Num(x.v - y.v)

\* ts_diff[np.isnan(ts_diff)] = null_value (None is stored in a float array as NaN)
ResetNaN(ts_diff, null_value) ==
    [i \in DOMAIN ts_diff |->
        IF ts_diff[i].nan /\ null_value # None THEN Num(null_value[1]) ELSE ts_diff[i]]

\* the body of run's loop: the array appended for one timestep
diff_timestep(r1, r2, d1, d2, null_value, ts_idx) ==
    LET ts_data1 == timestep_with_activity(r1, d1, ts_idx)
        ts_data2 == timestep_with_activity(r2, d2, ts_idx)
        ts_diff == [i \in 1..r1.num_values |-> Subtract(ts_data1[i], ts_data2[i])]
    IN  ResetNaN(ts_diff, null_value)

\* run: the writer after _init_writer, the loop over reader1's timesteps and
\* appending_finished
run_diff(r1, r2, d1, d2) ==
    LET null_value == init_null_value(r1, r2)
    IN  [geom_uuid |-> r1.geom_uuid,
         null_value |-> null_value,
         timesteps |-> [t \in 1..r1.num_times |-> diff_timestep(r1, r2, d1, d2, null_value, t)],
         finished |-> TRUE]

DiffInit ==
    /\ reader1 = NoReader
    /\ reader2 = NoReader
    /\ errors = NoErrors
    /\ data1 = <<>>
    /\ data2 = <<>>
    /\ writer = NoWriter
    /\ dpc = "start"

\* DatasetDiffTool(): the host makes a new instance (__init__)
ConstructDiff ==
    /\ dpc # "start"
    /\ reader1' = NoReader
    /\ reader2' = NoReader
    /\ errors' = NoErrors
    /\ data1' = <<>>
    /\ data2' = <<>>
    /\ writer' = NoWriter
    /\ dpc' = "start"
    /\ UNCHANGED meshVars

\* DatasetDiffTool.validate_arguments(arguments) for two input datasets
Validate ==
    /\ dpc = "start"
    /\ \E r1 \in Readers, r2 \in Readers :
         /\ reader1' = r1
         /\ reader2' = r2
         /\ errors' = validate_arguments(r1, r2)
    /\ dpc' = "validated"
    /\ data1' = <<>>
    /\ data2' = <<>>
    /\ writer' = NoWriter
    /\ UNCHANGED meshVars

\* DatasetDiffTool.run(arguments): the host calls it once validation returned no
\* error; the datasets' timesteps are what the readers then deliver
RunDiff ==
    /\ dpc = "validated"
    /\ DOMAIN errors = {}
    /\ \E d1 \in DataOf(reader1), d2 \in DataOf(reader2) :
         /\ data1' = d1
         /\ data2' = d2
         /\ writer' = run_diff(reader1, reader2, d1, d2)
    /\ dpc' = "done"
    /\ UNCHANGED <<reader1, reader2, errors, meshVars>>

-----------------------------------------------------------------------------
(* Specifications *)

Init == MeshInit /\ DiffInit

\* the mesh import tool
Next == WriteLine \/ NewFile \/ Construct \/ Run
Spec == Init /\ [][Next]_vars

\* the dataset difference tool
NextDiff == ConstructDiff \/ Validate \/ RunDiff
SpecDiff == Init /\ [][NextDiff]_vars

-----------------------------------------------------------------------------
(* Claims about DatasetDiffTool *)

GeomMismatch == reader1.geom_uuid # reader2.geom_uuid
ValuesMismatch == reader1.num_values # reader2.num_values
TimesMismatch == reader1.num_times # reader2.num_times

IsNullOf(r, x) == r.null_value # None /\ x = r.null_value[1]

\* C6: run writes one array per timestep of the inputs; a position holds the
\* output's null value when either input holds its own null value there and the
\* difference otherwise; the output's null value is the first input's when it
\* has one and else the second's, and the writer declares it.
C6_DiffWithNulls ==
    dpc = "done" =>
        LET sentinel == IF reader1.null_value # None THEN reader1.null_value
                        ELSE reader2.null_value
        IN  /\ writer.null_value = sentinel
            /\ writer.finished
            /\ Len(writer.timesteps) = reader1.num_times
            /\ \A t \in 1..reader1.num_times :
                 /\ Len(writer.timesteps[t]) = reader1.num_values
                 /\ \A i \in 1..reader1.num_values :
                      writer.timesteps[t][i] =
                          IF IsNullOf(reader1, data1[t][i]) \/ IsNullOf(reader2, data2[t][i])
                          THEN Num(sentinel[1])
                          ELSE Num(data1[t][i] - data2[t][i])

C6_Witness ==
    /\ dpc = "done"
    /\ reader1.null_value = Some(-9) /\ reader2.null_value = Some(-1)
    /\ reader1.num_times = 1 /\ reader1.num_values = 3
    /\ data1[1] = <<2, -9, 2>> /\ data2[1] = <<-1, 2, 2>>
    /\ writer.timesteps[1] = <<Num(-9), Num(-9), Num(0)>>

\* C7: the returned dict has an entry under the first dataset argument's name
\* exactly when the datasets differ in geometry, value count or timestep count,
\* and is empty when they agree in all three.
C7_MismatchKeyedToFirst ==
    dpc # "start" =>
        /\ (GeomMismatch \/ ValuesMismatch \/ TimesMismatch) <=> ARG1_NAME \in DOMAIN errors
        /\ ~(GeomMismatch \/ ValuesMismatch \/ TimesMismatch) => errors = NoErrors

C7_Witness ==
    /\ dpc = "validated"
    /\ ~GeomMismatch /\ ~ValuesMismatch /\ TimesMismatch
    /\ ARG1_NAME \in DOMAIN errors

\* C8 (as claimed): the returned dict conveys the message of every mismatch
\* that is present.
C8_AllMismatchesReported ==
    dpc # "start" =>
        LET conveyed == {errors[k] : k \in DOMAIN errors}
        IN  /\ GeomMismatch => GEOM_MSG \in conveyed
            /\ ValuesMismatch => VALUES_MSG \in conveyed
            /\ TimesMismatch => TIMES_MSG \in conveyed

=============================================================================
